---- MODULE Spec2Model ----
(***************************************************************************)
(* dashboard.py: a Streamlit page.  The script is executed top to bottom   *)
(* on every user interaction (a "run").  load_data() is memoised by        *)
(* st.cache_data; everything else is recomputed by each run in a fresh     *)
(* namespace.                                                              *)
(*                                                                         *)
(* A table (DataFrame) is a sequence of rows; a row is a record of its     *)
(* columns plus its index label.  A nullable cell is <<>> when missing     *)
(* (NaN / NaT / None) and <<v>> when present.  A timestamp is a number of  *)
(* hours since 1970-01-01 00:00, a date a number of days since 1970-01-01. *)
(***************************************************************************)
EXTENDS Integers, Sequences, FiniteSets, TLC

\* The longest file tried: in general, of hourly wind observations, and when
\* runs are compared.
MaxRows == 3
MaxWindRows == 2
MaxRerunRows == 2

None == <<>>
Some(v) == <<v>>
Val(o) == o[1]

Range(f) == {f[i] : i \in DOMAIN f}

(***************************************************************************)
(* Calendar arithmetic of the datetime library (proleptic Gregorian).      *)
(***************************************************************************)
IsLeap(y) == (y % 4 = 0 /\ y % 100 # 0) \/ y % 400 = 0

DaysInMonth(y, m) ==
  IF m = 2 THEN (IF IsLeap(y) THEN 29 ELSE 28)
  ELSE IF m \in {4, 6, 9, 11} THEN 30 ELSE 31

\* Days from 1970-01-01 to the civil date y-m-d (m in 1..12).
DaysFromCivil(y, m, d) ==
  LET yy  == IF m <= 2 THEN y - 1 ELSE y
      era == yy \div 400
      yoe == yy - era * 400
      mp  == IF m > 2 THEN m - 3 ELSE m + 9
      doy == (153 * mp + 2) \div 5 + d - 1
      doe == yoe * 365 + yoe \div 4 - yoe \div 100 + doy
  IN  era * 146097 + doe - 719468

\* The civil date <<y, m, d>> of a day number.
CivilFromDays(z) ==
  LET zz  == z + 719468
      era == zz \div 146097
      doe == zz - era * 146097
      yoe == (doe - doe \div 1460 + doe \div 36524 - doe \div 146096) \div 365
      doy == doe - (365 * yoe + yoe \div 4 - yoe \div 100)
      mp  == (5 * doy + 2) \div 153
      d   == doy - (153 * mp + 2) \div 5 + 1
      m   == IF mp < 10 THEN mp + 3 ELSE mp - 9
      y   == yoe + era * 400
  IN  <<IF m <= 2 THEN y + 1 ELSE y, m, d>>

\* Series.dt.date and Series.dt.hour of a timestamp.
DtDate(ts) == ts \div 24
DtHour(ts) == ts % 24

(***************************************************************************)
(* load_data                                                               *)
(***************************************************************************)
\* pd.read_csv: the file's rows under a RangeIndex 0, 1, 2, ...
read_csv(file) == [i \in 1..Len(file) |-> ("index" :> i - 1) @@ file[i]]

\* pd.to_datetime(df[["year","month","day","hour"]], errors="coerce") for one
\* row: year*10000 + month*100 + day is parsed with the format %Y%m%d (four
\* digits of year, two of month, two of day; NaT when that is no date), and
\* the hour is then added as a timedelta, whatever its value.
to_datetime(r) ==
  LET v == r.year * 10000 + r.month * 100 + r.day
      Y == v \div 10000
      M == (v \div 100) % 100
      D == v % 100
  IN  IF /\ Y >= 1678 /\ Y <= 2261
         /\ M >= 1 /\ M <= 12
         /\ D >= 1 /\ D <= DaysInMonth(Y, M)
      THEN Some(DaysFromCivil(Y, M, D) * 24 + r.hour)
      ELSE None

\* df[c] = v on one row: the column is added, or overwritten when present.
SetCol(r, c, v) == (c :> v) @@ r

AssignDatetime(t) == [i \in 1..Len(t) |-> SetCol(t[i], "datetime", to_datetime(t[i]))]

\* df.dropna(subset=["datetime"])
HasDatetime(r) == r.datetime # None
dropna(t) == SelectSeq(t, HasDatetime)

IsSortedByDatetime(t) ==
  \A i, j \in 1..Len(t) : i < j => Val(t[i].datetime) <= Val(t[j].datetime)

IndexPermutations(n) ==
  {p \in [1..n -> 1..n] : \A i, j \in 1..n : p[i] = p[j] => i = j}

\* df.sort_values("datetime"): the default sort is not stable, so rows with
\* equal timestamps may come out in any order.
sort_values(t) ==
  {s \in {[i \in 1..Len(t) |-> t[p[i]]] : p \in IndexPermutations(Len(t))} :
     IsSortedByDatetime(s)}

\* The tables load_data() may return for a file.
load_data(file) == sort_values(dropna(AssignDatetime(read_csv(file))))

(***************************************************************************)
(* Wind-direction enrichment                                               *)
(***************************************************************************)
WIND_DIR_MAP ==
  [N   |-> "North",           NNE |-> "North-Northeast",
   NE  |-> "Northeast",       ENE |-> "East-Northeast",
   E   |-> "East",            ESE |-> "East-Southeast",
   SE  |-> "Southeast",       SSE |-> "South-Southeast",
   S   |-> "South",           SSW |-> "South-Southwest",
   SW  |-> "Southwest",       WSW |-> "West-Southwest",
   W   |-> "West",            WNW |-> "West-Northwest",
   NW  |-> "Northwest",       NNW |-> "North-Northwest"]

\* A plausible slip: Series.replace(WIND_DIR_MAP), which keeps unmapped codes.
WindReplace(wd) ==
  IF wd # None /\ Val(wd) \in DOMAIN WIND_DIR_MAP
  THEN Some(WIND_DIR_MAP[Val(wd)]) ELSE wd

\* Series.map(WIND_DIR_MAP) on one cell: a key of the dict gives its value,
\* anything else (a missing cell included) gives a missing cell.
MapWind(wd) ==
  IF wd # None /\ Val(wd) \in DOMAIN WIND_DIR_MAP
  THEN Some(WIND_DIR_MAP[Val(wd)]) ELSE None

\* df["wind_direction_full"] = df["wd"].map(WIND_DIR_MAP)
AssignWind(t) ==
  [i \in 1..Len(t) |-> SetCol(t[i], "wind_direction_full", MapWind(t[i].wd))]

(***************************************************************************)
(* Sidebar widgets                                                         *)
(***************************************************************************)
\* df["station"].unique(), df["season"].unique(): the multiselect options.
StationOptions(t) == {t[i].station : i \in 1..Len(t)}
SeasonOptions(t) == {t[i].season : i \in 1..Len(t)}

RowDates(t) == {DtDate(Val(t[i].datetime)) : i \in 1..Len(t)}
SetMin(S) == CHOOSE x \in S : \A y \in S : x <= y
SetMax(S) == CHOOSE x \in S : \A y \in S : y <= x
min_date(t) == SetMin(RowDates(t))
max_date(t) == SetMax(RowDates(t))

\* What st.date_input may return for the range picker: (start, end) with
\* min_date <= start <= end <= max_date, or (start,) while the user has
\* picked a start and no end yet.  The dates tried are those of the rows.
DateRangeValues(t) ==
  LET D == {d \in RowDates(t) : min_date(t) <= d /\ d <= max_date(t)}
  IN  {<<a>> : a \in D} \cup {x \in D \X D : x[1] <= x[2]}

(***************************************************************************)
(* Filter                                                                  *)
(***************************************************************************)
\* A plausible slip: comparing the timestamp itself with the bounds taken at
\* midnight, which cuts the end day after its first hour.
FilterByTimestamp(t, sel_stations, sel_seasons, range) ==
  LET Keep(r) == /\ r.station \in sel_stations
                 /\ r.season \in sel_seasons
                 /\ Val(r.datetime) >= range[1] * 24
                 /\ Val(r.datetime) <= range[2] * 24
  IN  SelectSeq(t, Keep)

\* df[isin(stations) & isin(seasons) & (dt.date >= range[0]) & (dt.date <= range[1])]
\* (range[1], range[2] here: TLA+ sequences count from 1).
FilterRows(t, sel_stations, sel_seasons, range) ==
  LET Keep(r) == /\ r.station \in sel_stations
                 /\ r.season \in sel_seasons
                 /\ DtDate(Val(r.datetime)) >= range[1]
                 /\ DtDate(Val(r.datetime)) <= range[2]
  IN  SelectSeq(t, Keep)

(***************************************************************************)
(* KPI metrics                                                             *)
(***************************************************************************)
RECURSIVE SumSeq(_)
SumSeq(s) == IF s = <<>> THEN 0 ELSE Head(s) + SumSeq(Tail(s))

\* The present values of column c, in row order (the aggregations skip NaN).
Present(t, c) ==
  LET cells == [i \in 1..Len(t) |-> t[i][c]]
      IsPresent(o) == o # None
      kept == SelectSeq(cells, IsPresent)
  IN  [i \in 1..Len(kept) |-> Val(kept[i])]

\* Series.mean(): the sum and the count of the present values, NaN if none.
Mean(t, c) ==
  LET xs == Present(t, c)
  IN  IF xs = <<>> THEN None ELSE Some([sum |-> SumSeq(xs), n |-> Len(xs)])

\* Series.max(): NaN if no value is present.
Max(t, c) ==
  LET xs == Present(t, c)
  IN  IF xs = <<>> THEN None ELSE Some(SetMax(Range(xs)))

\* The air-quality labels of the data, in ascending string order.
AirQualityLabels == <<"Good", "Moderate", "Unhealthy">>
LabelRank(a) == CHOOSE i \in 1..Len(AirQualityLabels) : AirQualityLabels[i] = a

Count(xs, a) == Cardinality({i \in 1..Len(xs) : xs[i] = a})

\* The values of xs with the highest count.
Modes(xs) == {a \in Range(xs) : \A b \in Range(xs) : Count(xs, b) <= Count(xs, a)}

\* A plausible slip: the modes in order of first appearance (what
\* value_counts().index gives), not sorted.
ModeByAppearance(t, c) ==
  LET xs == Present(t, c)
      first == {i \in 1..Len(xs) : xs[i] \in Modes(xs) /\ \A j \in 1..(i - 1) : xs[j] # xs[i]}
  IN  [k \in 1..Cardinality(first) |->
         xs[CHOOSE i \in first : Cardinality({j \in first : j < i}) = k - 1]]

\* Series.mode(): the most frequent present values, sorted ascending; an
\* empty Series when no value is present.
Mode(t, c) ==
  LET xs == Present(t, c)
      M  == Modes(xs)
  IN  [k \in 1..Cardinality(M) |->
         CHOOSE a \in M : Cardinality({b \in M : LabelRank(b) < LabelRank(a)}) = k - 1]

(***************************************************************************)
(* Hourly pattern: filtered_df["hour"] = filtered_df["datetime"].dt.hour   *)
(***************************************************************************)
AssignHour(t) == [i \in 1..Len(t) |-> SetCol(t[i], "hour", DtHour(Val(t[i].datetime)))]

(***************************************************************************)
(* Correlation matrix                                                      *)
(***************************************************************************)
corr_cols == <<"PM2.5", "PM10", "SO2", "NO2", "CO", "O3", "TEMP", "WSPM", "PSI">>

\* A plausible slip: the diagonal set to 1 whatever the data (as after
\* np.fill_diagonal(corr.values, 1)).
CorrEntryUnitDiagonal(t, a, b) ==
  LET Both(r) == r[a] # None /\ r[b] # None
      rows == SelectSeq(t, Both)
      n   == Len(rows)
      Sx  == SumSeq([i \in 1..n |-> Val(rows[i][a])])
      Sy  == SumSeq([i \in 1..n |-> Val(rows[i][b])])
      Sxx == SumSeq([i \in 1..n |-> Val(rows[i][a]) * Val(rows[i][a])])
      Syy == SumSeq([i \in 1..n |-> Val(rows[i][b]) * Val(rows[i][b])])
      Sxy == SumSeq([i \in 1..n |-> Val(rows[i][a]) * Val(rows[i][b])])
      den2 == (n * Sxx - Sx * Sx) * (n * Syy - Sy * Sy)
  IN  IF a = b THEN Some([num |-> 1, den2 |-> 1])
      ELSE IF n < 1 \/ den2 = 0 THEN None
      ELSE Some([num |-> n * Sxy - Sx * Sy, den2 |-> den2])

\* DataFrame.corr() entry for columns a, b (Pearson, pairwise complete rows,
\* min_periods = 1).  With n rows where both cells are present:
\*   num = n*Sxy - Sx*Sy,  den2 = (n*Sxx - Sx^2) * (n*Syy - Sy^2),
\* the entry is num / sqrt(den2), and NaN when the divisor is 0.
CorrEntry(t, a, b) ==
  LET Both(r) == r[a] # None /\ r[b] # None
      rows == SelectSeq(t, Both)
      n   == Len(rows)
      Sx  == SumSeq([i \in 1..n |-> Val(rows[i][a])])
      Sy  == SumSeq([i \in 1..n |-> Val(rows[i][b])])
      Sxx == SumSeq([i \in 1..n |-> Val(rows[i][a]) * Val(rows[i][a])])
      Syy == SumSeq([i \in 1..n |-> Val(rows[i][b]) * Val(rows[i][b])])
      Sxy == SumSeq([i \in 1..n |-> Val(rows[i][a]) * Val(rows[i][b])])
      den2 == (n * Sxx - Sx * Sx) * (n * Syy - Sy * Sy)
  IN  IF n < 1 \/ den2 = 0 THEN None
      ELSE Some([num |-> n * Sxy - Sx * Sy, den2 |-> den2])

Corr(t) == [a \in Range(corr_cols) |-> [b \in Range(corr_cols) |-> CorrEntry(t, a, b)]]

(***************************************************************************)
(* Input files.  BaseRow is one observation; each family of rows varies    *)
(* the columns one part of the script reads.                               *)
(***************************************************************************)
BaseRow ==
  ("PM2.5" :> Some(1)) @@
  [station |-> "Aotizhongxin", season |-> "Spring",
   year |-> 2013, month |-> 3, day |-> 1, hour |-> 0,
   PM10 |-> Some(1), SO2 |-> Some(1), NO2 |-> Some(1), CO |-> Some(1),
   O3 |-> Some(1), TEMP |-> Some(1), WSPM |-> Some(1), PSI |-> Some(1),
   Air_Quality |-> Some("Good"), wd |-> Some("N")]

Obs(station, season, month, day, hour) ==
  [BaseRow EXCEPT !.station = station, !.season = season,
                  !.month = month, !.day = day, !.hour = hour]

\* Stations, seasons, days and hours.
RowsFilter ==
  {Obs("Aotizhongxin", "Spring", 3, 1, 0),  Obs("Aotizhongxin", "Spring", 3, 1, 23),
   Obs("Changping",    "Spring", 3, 2, 0),  Obs("Aotizhongxin", "Winter", 2, 28, 23),
   Obs("Changping",    "Winter", 3, 1, 12)}

When(year, month, day, hour) ==
  [BaseRow EXCEPT !.year = year, !.month = month, !.day = day, !.hour = hour]

\* Calendar fields, valid and not.
RowsCalendar ==
  {When(2013, 3, 1, 0),  When(2013, 3, 1, 23), When(2013, 3, 1, 24),
   When(2013, 3, 2, 0),  When(2013, 2, 29, 0), When(2013, 13, 1, 5),
   When(2013, 0, 131, 0)}

\* Wind codes: the sixteen of the map, two unknown ones, and a missing cell.
WindCells == {Some(c) : c \in DOMAIN WIND_DIR_MAP \cup {"nne", "CALM"}} \cup {None}

\* Hourly observations (row i at hour i - 1) with the wind cells ws.
HourlyWind(ws) == [i \in 1..Len(ws) |-> [BaseRow EXCEPT !.wd = ws[i], !.hour = i - 1]]

Rated(hour, psi, label) ==
  [BaseRow EXCEPT !.hour = hour, !.PSI = psi, !.Air_Quality = label]

\* PSI and air-quality label, present and missing.
RowsAirQuality ==
  {Rated(0, Some(4), Some("Good")),       Rated(1, Some(8), Some("Moderate")),
   Rated(2, Some(15), Some("Unhealthy")), Rated(3, Some(6), Some("Moderate")),
   Rated(4, None, None),                  Rated(5, Some(3), Some("Good"))}

Measured(hour, pm25, pm10, temp, psi) ==
  ("PM2.5" :> pm25) @@ [BaseRow EXCEPT !.hour = hour, !.PM10 = pm10, !.TEMP = temp, !.PSI = psi]

\* Numeric columns: varying, constant and missing.
RowsNumeric ==
  {Measured(0, Some(1), Some(1), Some(1), Some(1)),
   Measured(1, Some(2), Some(4), Some(3), Some(2)),
   Measured(2, Some(3), Some(2), None,    Some(1)),
   Measured(3, Some(5), Some(1), Some(0), None)}

\* Two stations, an hour that rolls over midnight.
RowsRerun ==
  {Obs("Aotizhongxin", "Spring", 3, 1, 0), Obs("Changping", "Spring", 3, 1, 24),
   Obs("Changping", "Spring", 3, 2, 0)}

\* The files of at most max rows drawn from U.
Files(U, max) == UNION {[1..n -> U] : n \in 0..max}

(***************************************************************************)
(* State                                                                   *)
(***************************************************************************)
VARIABLES
  csv,          \* dashboard/main.csv
  cache,        \* st.cache_data's entry for load_data(): None until built
  pc,           \* where the script run is
  df,           \* the run's table
  dfRef,        \* whether df is a private copy or the cached object itself
  stations, seasons, date_range,   \* what the widgets returned to this run
  filtered_df,
  kpi,          \* the st.metric values rendered so far
  corr,
  shown,        \* the table given to st.dataframe
  err,          \* the exception that ended the run
  prev          \* history: a filter selection and its rows, from an earlier run

vars == <<csv, cache, pc, df, dfRef, stations, seasons, date_range,
          filtered_df, kpi, corr, shown, err, prev>>

InitRun ==
  /\ cache = None /\ pc = "idle" /\ df = None /\ dfRef = "none"
  /\ stations = {} /\ seasons = {} /\ date_range = <<>>
  /\ filtered_df = None /\ kpi = None /\ corr = None /\ shown = None
  /\ err = "" /\ prev = None

Init         == csv \in Files(RowsFilter, MaxRows) /\ InitRun
InitCalendar == csv \in Files(RowsCalendar, MaxRows) /\ InitRun
InitWind     == csv \in {HourlyWind(ws) : ws \in Files(WindCells, MaxWindRows)} /\ InitRun
InitKpi      == csv \in Files(RowsAirQuality, MaxRows) /\ InitRun
InitCorr     == csv \in Files(RowsNumeric, MaxRows) /\ InitRun
InitRerun    == csv \in Files(RowsRerun, MaxRerunRows) /\ InitRun

(***************************************************************************)
(* A run of the script                                                     *)
(***************************************************************************)
RunVars == <<df, dfRef, stations, seasons, date_range, filtered_df, kpi, corr, shown, err>>

\* A user interaction (or a new session): the script starts again from the
\* top in a fresh namespace.
Rerun ==
  /\ pc \in {"idle", "done", "raised"}
  /\ pc' = "load"
  /\ df' = None /\ dfRef' = "none"
  /\ stations' = {} /\ seasons' = {} /\ date_range' = <<>>
  /\ filtered_df' = None /\ kpi' = None /\ corr' = None /\ shown' = None
  /\ err' = ""
  /\ prev' = IF prev = None THEN None
             ELSE Some([Val(prev) EXCEPT !.later = IF @ < 2 THEN @ + 1 ELSE @])
  /\ UNCHANGED <<csv, cache>>

\* What st.cache_resource would do: hand out the cached object itself.
cache_resource == "shared"

\* @st.cache_data: every call hands out a fresh copy of the stored value.
cache_data == "copy"

\* df = load_data(), first call: the function body runs and its result is
\* stored.
LoadMiss ==
  /\ pc = "load" /\ cache = None
  /\ \E t \in load_data(csv) : cache' = Some(t) /\ df' = Some(t)
  /\ dfRef' = cache_data
  /\ pc' = "enrich"
  /\ UNCHANGED <<csv, stations, seasons, date_range, filtered_df, kpi, corr, shown, err, prev>>

\* df = load_data(), later calls: the stored value is handed out.
LoadHit ==
  /\ pc = "load" /\ cache # None
  /\ df' = cache
  /\ dfRef' = cache_data
  /\ pc' = "enrich"
  /\ UNCHANGED <<csv, cache, stations, seasons, date_range, filtered_df, kpi, corr, shown, err, prev>>

\* df["wind_direction_full"] = df["wd"].map(WIND_DIR_MAP): an assignment in
\* place, which reaches the cached object when df is that object.
Enrich ==
  /\ pc = "enrich"
  /\ df' = Some(AssignWind(Val(df)))
  /\ cache' = IF dfRef = "shared" THEN df' ELSE cache
  /\ pc' = "widgets"
  /\ UNCHANGED <<csv, dfRef, stations, seasons, date_range, filtered_df, kpi, corr, shown, err, prev>>

\* The sidebar: the multiselects return subsets of their options, the date
\* picker a range within [min_date, max_date].
Widgets ==
  /\ pc = "widgets" /\ Val(df) # <<>>
  /\ stations' \in SUBSET StationOptions(Val(df))
  /\ seasons' \in SUBSET SeasonOptions(Val(df))
  /\ date_range' \in DateRangeValues(Val(df))
  /\ pc' = "filter"
  /\ UNCHANGED <<csv, cache, df, dfRef, filtered_df, kpi, corr, shown, err, prev>>

\* With no row loaded, min_date and max_date are NaT and the date picker
\* cannot be built from them.
WidgetsNoData ==
  /\ pc = "widgets" /\ Val(df) = <<>>
  /\ pc' = "raised" /\ err' = "ValueError"
  /\ UNCHANGED <<csv, cache, df, dfRef, stations, seasons, date_range, filtered_df, kpi, corr, shown, prev>>

\* The filter: a new table, df is left as it is.
Filter ==
  /\ pc = "filter" /\ Len(date_range) >= 2
  /\ filtered_df' = Some(FilterRows(Val(df), stations, seasons, date_range))
  /\ pc' = "kpi"
  /\ UNCHANGED <<csv, cache, df, dfRef, stations, seasons, date_range, kpi, corr, shown, err, prev>>

\* date_range[1] on a one-element tuple.
FilterIndexError ==
  /\ pc = "filter" /\ Len(date_range) < 2
  /\ pc' = "raised" /\ err' = "IndexError"
  /\ UNCHANGED <<csv, cache, df, dfRef, stations, seasons, date_range, filtered_df, kpi, corr, shown, prev>>

\* The four metrics.  mean() and max() of no value are NaN and are rendered
\* ("nan"); mode()[0] of no value raises before the third metric is built.
Kpi ==
  /\ pc = "kpi" /\ Mode(Val(filtered_df), "Air_Quality") # <<>>
  /\ kpi' = Some([avg   |-> Mean(Val(filtered_df), "PSI"),
                  max   |-> Max(Val(filtered_df), "PSI"),
                  mode  |-> Mode(Val(filtered_df), "Air_Quality")[1],
                  total |-> Len(Val(filtered_df))])
  /\ pc' = "charts"
  /\ UNCHANGED <<csv, cache, df, dfRef, stations, seasons, date_range, filtered_df, corr, shown, err, prev>>

KpiKeyError ==
  /\ pc = "kpi" /\ Mode(Val(filtered_df), "Air_Quality") = <<>>
  /\ kpi' = Some([avg |-> Mean(Val(filtered_df), "PSI"),
                  max |-> Max(Val(filtered_df), "PSI")])
  /\ pc' = "raised" /\ err' = "KeyError"
  /\ UNCHANGED <<csv, cache, df, dfRef, stations, seasons, date_range, filtered_df, corr, shown, prev>>

\* Trend, seasonal, wind and station charts: they read filtered_df.
Charts ==
  /\ pc = "charts"
  /\ pc' = "hourly"
  /\ UNCHANGED <<csv, cache, RunVars, prev>>

\* What the assignment would do if filtered_df were a view of a shared
\* table: the hour column of the cached rows is overwritten too.
HourlyThroughView ==
  /\ pc = "hourly"
  /\ filtered_df' = Some(AssignHour(Val(filtered_df)))
  /\ cache' = Some([i \in 1..Len(Val(cache)) |->
                     SetCol(Val(cache)[i], "hour", DtHour(Val(Val(cache)[i].datetime)))])
  /\ pc' = "corr"
  /\ UNCHANGED <<csv, df, dfRef, stations, seasons, date_range, kpi, corr, shown, err, prev>>

\* filtered_df["hour"] = filtered_df["datetime"].dt.hour, then the hourly
\* chart: the column of filtered_df is overwritten in place.
Hourly ==
  /\ pc = "hourly"
  /\ filtered_df' = Some(AssignHour(Val(filtered_df)))
  /\ pc' = "corr"
  /\ UNCHANGED <<csv, cache, df, dfRef, stations, seasons, date_range, kpi, corr, shown, err, prev>>

\* The air-quality bar chart and the correlation heatmap.
Correlation ==
  /\ pc = "corr"
  /\ corr' = Some(Corr(Val(filtered_df)))
  /\ pc' = "raw"
  /\ UNCHANGED <<csv, cache, df, dfRef, stations, seasons, date_range, filtered_df, kpi, shown, err, prev>>

\* st.dataframe(filtered_df): the run ends.
RawData ==
  /\ pc = "raw"
  /\ shown' = filtered_df
  /\ pc' = "done"
  /\ UNCHANGED <<csv, cache, df, dfRef, stations, seasons, date_range, filtered_df, kpi, corr, err, prev>>

Next ==
  \/ Rerun \/ LoadMiss \/ LoadHit \/ Enrich \/ Widgets \/ WidgetsNoData
  \/ Filter \/ FilterIndexError \/ Kpi \/ KpiKeyError \/ Charts \/ Hourly
  \/ Correlation \/ RawData

\* History for comparing runs: note the selection and the rows the filter
\* step has just produced; "later" counts the runs started since (up to 2).
Remember ==
  /\ pc = "kpi"
  /\ prev' = Some([stations |-> stations, seasons |-> seasons,
                   date_range |-> date_range, rows |-> Range(Val(filtered_df)),
                   later |-> 0])
  /\ prev' # prev
  /\ UNCHANGED <<csv, cache, pc, RunVars>>

NextRerun == Next \/ Remember

Spec         == Init /\ [][Next]_vars
SpecCalendar == InitCalendar /\ [][Next]_vars
SpecWind     == InitWind /\ [][Next]_vars
SpecKpi      == InitKpi /\ [][Next]_vars
SpecCorr     == InitCorr /\ [][Next]_vars
SpecRerun    == InitRerun /\ [][NextRerun]_vars

(***************************************************************************)
(* Properties                                                              *)
(***************************************************************************)
\* The run holds the table the filter step produced, not yet touched by any
\* later step.
FilterJustDone ==
  /\ filtered_df # None
  /\ pc \in {"kpi", "charts", "hourly"} \/ (pc = "raised" /\ err = "KeyError")

\* C1: the filtered view holds exactly the rows of the run's table whose
\* station and season are selected and whose timestamp lies between 00:00 of
\* the start date and 23:59 of the end date; it is a sub-table of it; and
\* with start = end = D every selected row of day D, hours 0 to 23, is in and
\* every row of the day before or after is out.
FilterExact ==
  FilterJustDone =>
    LET t  == Val(df)
        v  == Val(filtered_df)
        lo == date_range[1]
        hi == date_range[2]
        Chosen(r) == r.station \in stations /\ r.season \in seasons
        ts(r) == Val(r.datetime)
    IN  /\ \A i \in 1..Len(t) :
             t[i] \in Range(v) <=>
               (Chosen(t[i]) /\ lo * 24 <= ts(t[i]) /\ ts(t[i]) < (hi + 1) * 24)
        /\ Range(v) \subseteq Range(t)
        /\ Len(v) <= Len(t)
        /\ Cardinality(Range(v)) = Len(v)
        /\ lo = hi =>
             \A i \in 1..Len(t) :
               /\ (Chosen(t[i]) /\ \E h \in 0..23 : ts(t[i]) = lo * 24 + h)
                     => t[i] \in Range(v)
               /\ (\E h \in 0..23 : ts(t[i]) \in {(lo - 1) * 24 + h, (lo + 1) * 24 + h})
                     => t[i] \notin Range(v)

\* C1's case: a one-day range that keeps a 23:00 row of that day and drops a
\* selected row of the next day.
FilterExactWitness ==
  /\ pc = "charts" /\ Len(date_range) = 2 /\ date_range[1] = date_range[2]
  /\ \E r \in Range(Val(filtered_df)) : Val(r.datetime) = date_range[1] * 24 + 23
  /\ \E r \in Range(Val(df)) :
       /\ r.station \in stations /\ r.season \in seasons
       /\ DtDate(Val(r.datetime)) = date_range[1] + 1
       /\ r \notin Range(Val(filtered_df))

\* C2: a run whose filtered view is empty does not raise.
EmptyViewDoesNotRaise ==
  (filtered_df # None /\ Val(filtered_df) = <<>>) => pc # "raised"

\* C3: once built, the cached table is one of the loader's results for the
\* file and no step of any run changes it.
CacheReadOnly ==
  /\ [](cache # None => Val(cache) \in load_data(csv))
  /\ [][cache # None => cache' = cache]_vars

\* C3's case: a later run, after another selection, has enriched its table,
\* overwritten the hour column of its view and finished; the cached table has
\* neither change.
CacheReadOnlyWitness ==
  /\ pc = "done" /\ prev # None /\ Val(prev).stations # stations
  /\ Val(cache) # <<>> /\ Val(df) # Val(cache)
  /\ \E r \in Range(Val(shown)) : \E c \in Range(Val(cache)) :
       r.index = c.index /\ r.hour # c.hour

\* C4: the table given to the raw-data viewer is the table the filter step
\* produced.
RawViewIsFilterOutput ==
  pc = "done" => shown = Some(FilterRows(Val(df), stations, seasons, date_range))

\* The number of rows of v with air-quality label a.
LabelCount(v, a) == Cardinality({i \in 1..Len(v) : v[i].Air_Quality = Some(a)})

ModeShown == kpi # None /\ "mode" \in DOMAIN Val(kpi)

\* C5 (amended): the Most Common Air Quality metric is a label with the
\* highest row count in the filtered view and, among the labels with that
\* count, the first in ascending string order.
ModeIsSmallestOfMostFrequent ==
  ModeShown =>
    LET v == Val(filtered_df)
        m == Val(kpi).mode
    IN  /\ LabelCount(v, m) > 0
        /\ \A a \in Range(AirQualityLabels) :
             /\ LabelCount(v, a) <= LabelCount(v, m)
             /\ LabelCount(v, a) = LabelCount(v, m) => LabelRank(m) <= LabelRank(a)

\* C5's case: two labels tie for the highest count and the one that comes
\* first in the view is not the one shown.
ModeTieWitness ==
  /\ ModeShown
  /\ LET v == Val(filtered_df)
         m == Val(kpi).mode
     IN  /\ v[1].Air_Quality # None /\ Val(v[1].Air_Quality) # m
         /\ LabelCount(v, Val(v[1].Air_Quality)) = LabelCount(v, m)

\* C5 as stated: among the labels with the highest count, the one shown is
\* the one met first in the view's row order.
ModeIsFirstEncountered ==
  ModeShown =>
    LET v == Val(filtered_df)
        m == Val(kpi).mode
    IN  \E i \in 1..Len(v) :
          /\ v[i].Air_Quality = Some(m)
          /\ \A a \in Range(AirQualityLabels) : LabelCount(v, a) <= LabelCount(v, m)
          /\ \A j \in 1..(i - 1) :
               \/ v[j].Air_Quality = None
               \/ LabelCount(v, Val(v[j].Air_Quality)) < LabelCount(v, m)

\* The four calendar fields of a row name a calendar instant.
ValidCalendar(r) ==
  /\ r.month \in 1..12
  /\ r.day >= 1 /\ r.day <= DaysInMonth(r.year, r.month)
  /\ r.hour \in 0..23

\* C6: every row of the base table has a timestamp that reads back as the
\* row's own year, month, day and hour; the rows of the file that are in the
\* base table are exactly those whose fields name a calendar instant; and the
\* rows are in non-decreasing timestamp order.
LoaderContract ==
  cache # None =>
    LET t == Val(cache)
    IN  /\ \A i \in 1..Len(t) :
             /\ t[i].datetime # None
             /\ CivilFromDays(DtDate(Val(t[i].datetime))) = <<t[i].year, t[i].month, t[i].day>>
             /\ DtHour(Val(t[i].datetime)) = t[i].hour
        /\ {t[i].index : i \in 1..Len(t)} = {i - 1 : i \in {k \in 1..Len(csv) : ValidCalendar(csv[k])}}
        /\ IsSortedByDatetime(t)

\* The sixteen compass points, each as its sequence of letters: the four
\* cardinal points, the four between them, and the eight between those.
CompassPoints ==
  LET C     == {"N", "E", "S", "W"}
      Inter == {"N", "S"} \X {"E", "W"}
  IN  {<<c>> : c \in C} \cup Inter
        \cup {<<q[1]>> \o q[2] : q \in {x \in C \X Inter : x[1] \in Range(x[2])}}

CapitalName == [N |-> "North", E |-> "East", S |-> "South", W |-> "West"]
LowerName   == [N |-> "north", E |-> "east", S |-> "south", W |-> "west"]

CodeOf(p) ==
  IF Len(p) = 1 THEN p[1]
  ELSE IF Len(p) = 2 THEN p[1] \o p[2] ELSE p[1] \o p[2] \o p[3]

NameOf(p) ==
  IF Len(p) = 1 THEN CapitalName[p[1]]
  ELSE IF Len(p) = 2 THEN CapitalName[p[1]] \o LowerName[p[2]]
  ELSE CapitalName[p[1]] \o "-" \o CapitalName[p[2]] \o LowerName[p[3]]

\* C7: after the enrichment every row of the run's table is the loaded row
\* with one more column; that column is the full name of the row's compass
\* code when the code is one of the sixteen, and missing for any other code
\* or a missing code; the sixteen codes have sixteen different names.
WindLabelTotal ==
  /\ Cardinality(CompassPoints) = 16
  /\ Cardinality({NameOf(p) : p \in CompassPoints}) = 16
  /\ (df # None /\ pc \notin {"load", "enrich"}) =>
       /\ Len(Val(df)) = Len(Val(cache))
       /\ \A i \in 1..Len(Val(df)) :
            LET r == Val(df)[i]
                b == Val(cache)[i]
            IN  /\ DOMAIN r = DOMAIN b \cup {"wind_direction_full"}
                /\ \A c \in DOMAIN b : r[c] = b[c]
                /\ \A p \in CompassPoints :
                     r.wd = Some(CodeOf(p)) => r.wind_direction_full = Some(NameOf(p))
                /\ (\A p \in CompassPoints : r.wd # Some(CodeOf(p)))
                     => r.wind_direction_full = None

\* C7's case: a finished run whose table has an "NNE" row labelled
\* "North-Northeast" and a row with an unknown code and no label.
WindLabelWitness ==
  /\ pc = "done"
  /\ \E r \in Range(Val(df)) :
       r.wd = Some("NNE") /\ r.wind_direction_full = Some("North-Northeast")
  /\ \E r \in Range(Val(df)) :
       r.wd = Some("CALM") /\ r.wind_direction_full = None

SameSelection ==
  /\ prev # None /\ Val(prev).stations = stations
  /\ Val(prev).seasons = seasons /\ Val(prev).date_range = date_range

\* C8: a run whose filter selection is the one noted in an earlier run
\* produces the rows that run produced, whatever runs came in between.
SameSelectionSameRows ==
  (FilterJustDone /\ SameSelection) => Range(Val(filtered_df)) = Val(prev).rows

\* C8's case: the selection was noted, at least two more runs were started,
\* and the filter step has again produced rows for that selection.
SameSelectionWitness ==
  /\ pc = "kpi" /\ SameSelection /\ Val(prev).later = 2
  /\ Val(filtered_df) # <<>> /\ Len(Val(filtered_df)) < Len(Val(df))

\* A correlation entry is the number 1.
IsOne(e) == e # None /\ Val(e).num > 0 /\ Val(e).num * Val(e).num = Val(e).den2

\* Column a of v has two present values that differ.
Varies(v, a) ==
  \E i, j \in 1..Len(v) : v[i][a] # None /\ v[j][a] # None /\ v[i][a] # v[j][a]

\* C9 (amended): the correlation matrix is symmetric, missing entries
\* included, and a diagonal entry is 1 when its column has two present
\* values that differ in the view and is missing (NaN) otherwise: for an
\* empty view, a single row or a constant column.
CorrSymmetricDiagonalOneOrNaN ==
  /\ \A a, b \in Range(corr_cols) : CorrEntry(<<>>, a, b) = None
  /\ corr # None =>
       LET v == Val(filtered_df)
           m == Val(corr)
       IN  /\ \A a, b \in Range(corr_cols) : m[a][b] = m[b][a]
           /\ \A a \in Range(corr_cols) :
                IF Varies(v, a) THEN IsOne(m[a][a]) ELSE m[a][a] = None

\* C9's case: a matrix with a diagonal entry 1, a missing diagonal entry and
\* an off-diagonal entry that is a number other than 1.
CorrWitness ==
  /\ corr # None
  /\ \E a, b, c \in Range(corr_cols) :
       /\ IsOne(Val(corr)[a][a]) /\ Val(corr)[b][b] = None
       /\ a # c /\ Val(corr)[a][c] # None /\ ~IsOne(Val(corr)[a][c])

\* C9 as stated: the matrix is symmetric and every diagonal entry is 1.
CorrSymmetricUnitDiagonal ==
  corr # None =>
    /\ \A a, b \in Range(corr_cols) : Val(corr)[a][b] = Val(corr)[b][a]
    /\ \A a \in Range(corr_cols) : IsOne(Val(corr)[a][a])

\* C10: whatever the date picker returned, the run gets past the filter step
\* with both date bounds defined and a filtered view.
DateRangeAlwaysFilters ==
  (date_range # <<>> /\ pc # "filter") => (Len(date_range) = 2 /\ filtered_df # None)

====
